---- MODULE Spec2Model ----
(***************************************************************************)
(* A model of the TextMate-style tokenizer of src/tmlanguage/tmlanguage.c: *)
(* the renderer (cursor, stack of active states, seq counter), the line    *)
(* splitter, the while/dispatch phases of renderLine, capture rendering,   *)
(* scope emission with clamping, and the scope sort.                       *)
(*                                                                         *)
(* Offsets are 0-based as in the C code; the byte at offset o of the input *)
(* is bytes[o + 1].  Stack index i of the C code is stack[i + 1] here.     *)
(* The regex library is modelled by a small matcher over sequences of      *)
(* items (byte classes, possessive repetition, anchors, group marks), with *)
(* the search-window behaviour of onig_search / onig_regset_search.        *)
(***************************************************************************)
EXTENDS Integers, Sequences, FiniteSets, TLC

VARIABLES
    patterns,   \* pattern id -> struct pattern
    states,     \* state id -> struct state
    regsets,    \* state id -> the regions of the state's regset
    r,          \* struct renderer
    line,       \* struct line, as left by the last renderNextLine
    ret,        \* result of the last renderNextLine: "none", "line", "eof", "freed"
    prev,       \* renderer fields as they were before the last call
    consumed,   \* sum of endIncludingNewline - begin over the lines returned
    log,        \* what the last renderLine did, in order
    heap        \* the regexes and regions allocated for frames

vars == <<patterns, states, regsets, r, line, ret, prev, consumed, log, heap>>

----------------------------------------------------------------------------
(* Bytes *)

NL == 10
CR == 13

(* sizeof(r->stack)/sizeof(r->stack[0]) *)
StackSize == 256

(* a watchdog that lets one more match through *)
MaxNoProgress_OneMore == 32 + 1

(* the watchdog of the dispatch loop *)
MaxNoProgress == 32

(* more evaluations of the dispatch loop's condition than a line of the    *)
(* model needs                                                             *)
MaxIterations == 1024

----------------------------------------------------------------------------
(* The regex library, as far as the tokenizer relies on it. *)

NoReg == <<-1, -1>>

ClearRegion(n) == [i \in 1..n |-> NoReg]

Chr(S) == [k |-> "chr", set |-> S, g |-> 0]
Star(S) == [k |-> "star", set |-> S, g |-> 0]
Ahead(S) == [k |-> "la", set |-> S, g |-> 0]
Open(g) == [k |-> "open", set |-> {}, g |-> g]
Close(g) == [k |-> "close", set |-> {}, g |-> g]
Bol == [k |-> "bol", set |-> {}, g |-> 0]
BeginPos == [k |-> "G", set |-> {}, g |-> 0]
Ref(g) == [k |-> "ref", set |-> {}, g |-> g]

RECURSIVE RunEnd(_, _, _, _)
RunEnd(bytes, pos, dataEnd, S) ==
    IF pos < dataEnd /\ bytes[pos + 1] \in S
    THEN RunEnd(bytes, pos + 1, dataEnd, S)
    ELSE pos

(* match items[i..] at pos; the subject is bytes[str, dataEnd). *)
RECURSIVE MatchItems(_, _, _, _, _, _, _, _)
MatchItems(items, i, pos, caps, bytes, str, dataEnd, atBegin) ==
    IF i > Len(items) THEN [ok |-> TRUE, pos |-> pos, caps |-> caps]
    ELSE LET it == items[i]
             fail == [ok |-> FALSE, pos |-> pos, caps |-> caps]
             next(p, c) == MatchItems(items, i + 1, p, c, bytes, str, dataEnd, atBegin)
         IN CASE it.k = "chr" ->
                   IF pos < dataEnd /\ bytes[pos + 1] \in it.set
                   THEN next(pos + 1, caps) ELSE fail
              [] it.k = "star" -> next(RunEnd(bytes, pos, dataEnd, it.set), caps)
              [] it.k = "la" ->
                   IF pos < dataEnd /\ bytes[pos + 1] \in it.set
                   THEN next(pos, caps) ELSE fail
              [] it.k = "open" ->
                   next(pos, [caps EXCEPT ![it.g + 1] = <<pos - str, pos - str>>])
              [] it.k = "close" ->
                   next(pos, [caps EXCEPT ![it.g + 1] = <<caps[it.g + 1][1], pos - str>>])
              [] it.k = "bol" -> IF pos = str THEN next(pos, caps) ELSE fail
              [] it.k = "G" -> IF atBegin THEN next(pos, caps) ELSE fail
              [] OTHER -> fail

NoMatch(n) == [res |-> -1, region |-> ClearRegion(n)]

(* one match attempt at position s *)
TryAt(items, n, bytes, str, dataEnd, s, start, notBegin) ==
    LET m == MatchItems(items, 1, s, ClearRegion(n), bytes, str, dataEnd,
                        s = start /\ ~notBegin)
    IN IF m.ok
       THEN [res |-> s - str,
             region |-> [m.caps EXCEPT ![1] = <<s - str, m.pos - str>>]]
       ELSE NoMatch(n)

RECURSIVE ScanForward(_, _, _, _, _, _, _, _, _)
ScanForward(items, n, bytes, str, dataEnd, s, start, range, notBegin) ==
    IF s > range THEN NoMatch(n)
    ELSE LET m == TryAt(items, n, bytes, str, dataEnd, s, start, notBegin)
         IN IF m.res >= 0 THEN m
            ELSE ScanForward(items, n, bytes, str, dataEnd, s + 1, start, range, notBegin)

RECURSIVE ScanBackward(_, _, _, _, _, _, _, _, _)
ScanBackward(items, n, bytes, str, dataEnd, s, start, range, notBegin) ==
    IF s < range \/ s < str THEN NoMatch(n)
    ELSE LET m == TryAt(items, n, bytes, str, dataEnd, s, start, notBegin)
         IN IF m.res >= 0 THEN m
            ELSE ScanBackward(items, n, bytes, str, dataEnd, s - 1, start, range, notBegin)

(* onig_search(re, str, end, start, range, region, option): the match      *)
(* starts in [start, range]; searching forward the subject ends at range,  *)
(* otherwise (range <= start) the search runs backward from start and the  *)
(* subject ends at end.                                                    *)
OnigSearch(items, n, bytes, str, end, start, range, notBegin) ==
    IF start > end \/ start < str THEN NoMatch(n)
    ELSE IF range > start
    THEN ScanForward(items, n, bytes, str, range, start, start, range, notBegin)
    ELSE ScanBackward(items, n, bytes, str, end, start, start, range, notBegin)

----------------------------------------------------------------------------
(* advanceToNextLine: the offset before the terminator and the new cursor. *)

(* as advanceToNextLine, but a "\r\n" is taken as two terminators *)
RECURSIVE advanceToNextLine_SplitsCrLf(_, _, _)
advanceToNextLine_SplitsCrLf(bytes, len, offset) ==
    IF offset >= len THEN [beforeNewline |-> offset, offset |-> offset]
    ELSE IF bytes[offset + 1] \in {NL, CR}
    THEN [beforeNewline |-> offset, offset |-> offset + 1]
    ELSE advanceToNextLine_SplitsCrLf(bytes, len, offset + 1)

(* as advanceToNextLine, but the terminator is left for the next line *)
RECURSIVE advanceToNextLine_KeepsTerminator(_, _, _)
advanceToNextLine_KeepsTerminator(bytes, len, offset) ==
    IF offset >= len \/ bytes[offset + 1] \in {NL, CR}
    THEN [beforeNewline |-> offset, offset |-> offset]
    ELSE advanceToNextLine_KeepsTerminator(bytes, len, offset + 1)

RECURSIVE advanceToNextLine(_, _, _)
advanceToNextLine(bytes, len, offset) ==
    IF offset >= len THEN [beforeNewline |-> offset, offset |-> offset]
    ELSE IF bytes[offset + 1] = NL
    THEN [beforeNewline |-> offset, offset |-> offset + 1]
    ELSE IF bytes[offset + 1] = CR
    THEN [beforeNewline |-> offset,
          offset |-> IF offset + 1 < len /\ bytes[offset + 2] = NL
                     THEN offset + 2 ELSE offset + 1]
    ELSE advanceToNextLine(bytes, len, offset + 1)

----------------------------------------------------------------------------
(* Patterns and states. *)

Null == "null"

IsRef(it) == it.k = "ref"

(* createBackreferencingPattern compiles the text with the backslash of    *)
(* every \d replaced by '0': the two bytes then match themselves.          *)
RECURSIVE CompileText(_)
CompileText(text) ==
    IF text = <<>> THEN <<>>
    ELSE LET it == Head(text)
         IN (IF IsRef(it) THEN <<Chr({48}), Chr({48 + it.g})>> ELSE <<it>>)
            \o CompileText(Tail(text))

createPattern(items, n) ==
    [re |-> items, captures |-> n, innerScope |-> 0, outerScope |-> 0,
     captureScopes |-> [i \in 1..n |-> 0],
     captureStates |-> [i \in 1..n |-> Null],
     backreferencingPattern |-> FALSE, text |-> <<>>]

createBackreferencingPattern(items, n) ==
    IF \E i \in 1..Len(items) : IsRef(items[i])
    THEN [createPattern(CompileText(items), n) EXCEPT
            !.backreferencingPattern = TRUE, !.text = items]
    ELSE createPattern(items, n)

setInnerScope(p, name) == [p EXCEPT !.innerScope = name]
setOuterScope(p, name) == [p EXCEPT !.outerScope = name]

createState == [patterns |-> <<>>, whilePattern |-> Null, endPattern |-> Null,
                applyEndPatternLast |-> FALSE]

addMatch(s, match) ==
    [s EXCEPT !.patterns = Append(@, [type |-> "MATCH", p |-> match, to |-> Null])]

addBegin(s, to, begin) ==
    [s EXCEPT !.patterns = Append(@, [type |-> "BEGIN", p |-> begin, to |-> to])]

setEnd(s, end, applyLast) ==
    [s EXCEPT !.endPattern = end, !.applyEndPatternLast = applyLast]

setWhile(s, while) == [s EXCEPT !.whilePattern = while]

(* onig_regset_search(..., ONIG_REGSET_POSITION_LEAD, ...): the earliest   *)
(* start wins, ties go to the regex added first; forward only, the subject *)
(* ends at range.                                                          *)
RECURSIVE RegsetAt(_, _, _, _, _, _, _, _, _)
RegsetAt(pats, rules, i, bytes, str, range, s, start, notBegin) ==
    IF i > Len(rules) THEN [res |-> -1, matchpos |-> -1, region |-> <<>>]
    ELSE LET p == pats[rules[i].p]
             m == TryAt(p.re, p.captures, bytes, str, range, s, start, notBegin)
         IN IF m.res >= 0
            THEN [res |-> i - 1, matchpos |-> m.res, region |-> m.region]
            ELSE RegsetAt(pats, rules, i + 1, bytes, str, range, s, start, notBegin)

RECURSIVE RegsetScan(_, _, _, _, _, _, _, _)
RegsetScan(pats, rules, bytes, str, range, s, start, notBegin) ==
    IF s > range THEN [res |-> -1, matchpos |-> -1, region |-> <<>>]
    ELSE LET m == RegsetAt(pats, rules, 1, bytes, str, range, s, start, notBegin)
         IN IF m.res >= 0 THEN m
            ELSE RegsetScan(pats, rules, bytes, str, range, s + 1, start, notBegin)

RegsetSearch(pats, rules, bytes, str, end, start, range, notBegin) ==
    IF rules = <<>> \/ start > end \/ start < str \/ range < start
    THEN [res |-> -1, matchpos |-> -1, region |-> <<>>]
    ELSE RegsetScan(pats, rules, bytes, str, range, start, start, notBegin)

----------------------------------------------------------------------------
(* Scope events. *)

(* size_t arithmetic wraps.  The offsets of the model are far below 2^30, *)
(* which stands for the 2^w of size_t: a sum that wraps is above every     *)
(* offset of the input, as it is in C.                                     *)
SizeWrap == 2 ^ 30

(* line->begin + region->beg[i]: the int is converted to size_t, so with   *)
(* beg[i] = -1 (ONIG_REGION_NOTPOS) the sum is line->begin - 1 modulo 2^w  *)
At(cx, rel) == (cx.lb + rel) % SizeWrap

addScope(M, s) == [M EXCEPT !.scopes = Append(@, s)]

(* as addScopeRange, but a range that is empty after clamping is emitted *)
addScopeRange_KeepsEmpty(cx, M, name, seq, begin, end) ==
    LET clampedBegin == IF begin < cx.lb THEN cx.lb ELSE begin
        clampedEnd == IF end > cx.le THEN cx.le ELSE end
        L == [M EXCEPT !.log = Append(@, [k |-> "range", name |-> name, seq |-> seq,
                                          begin |-> begin, end |-> end])]
    IN IF name = 0 THEN L
       ELSE addScope(addScope(L,
              [ty |-> "BEGIN", name |-> name, offset |-> clampedBegin,
               startOffset |-> begin, endOffset |-> end, seq |-> seq]),
              [ty |-> "END", name |-> name, offset |-> clampedEnd,
               startOffset |-> begin, endOffset |-> end, seq |-> seq])

(* as addScopeRange, but the begin of the range is not clamped *)
addScopeRange_BeginUnclamped(cx, M, name, seq, begin, end) ==
    LET clampedEnd == IF end > cx.le THEN cx.le ELSE end
        L == [M EXCEPT !.log = Append(@, [k |-> "range", name |-> name, seq |-> seq,
                                          begin |-> begin, end |-> end])]
    IN IF name = 0 \/ begin >= clampedEnd THEN L
       ELSE addScope(addScope(L,
              [ty |-> "BEGIN", name |-> name, offset |-> begin,
               startOffset |-> begin, endOffset |-> end, seq |-> seq]),
              [ty |-> "END", name |-> name, offset |-> clampedEnd,
               startOffset |-> begin, endOffset |-> end, seq |-> seq])

(* as addScopeRange, but the end is clamped to the line's                  *)
(* endIncludingNewline                                                     *)
addScopeRange_ClampsToNewline(cx, M, name, seq, begin, end) ==
    LET clampedBegin == IF begin < cx.lb THEN cx.lb ELSE begin
        clampedEnd == IF end > cx.ein THEN cx.ein ELSE end
        L == [M EXCEPT !.log = Append(@, [k |-> "range", name |-> name, seq |-> seq,
                                          begin |-> begin, end |-> end])]
    IN IF name = 0 \/ clampedBegin >= clampedEnd THEN L
       ELSE addScope(addScope(L,
              [ty |-> "BEGIN", name |-> name, offset |-> clampedBegin,
               startOffset |-> begin, endOffset |-> end, seq |-> seq]),
              [ty |-> "END", name |-> name, offset |-> clampedEnd,
               startOffset |-> begin, endOffset |-> end, seq |-> seq])

addScopeRange(cx, M, name, seq, begin, end) ==
    LET clampedBegin == IF begin < cx.lb THEN cx.lb ELSE begin
        clampedEnd == IF end > cx.le THEN cx.le ELSE end
        L == [M EXCEPT !.log = Append(@, [k |-> "range", name |-> name, seq |-> seq,
                                          begin |-> begin, end |-> end])]
    IN IF name = 0 \/ clampedBegin >= clampedEnd THEN L
       ELSE addScope(addScope(L,
              [ty |-> "BEGIN", name |-> name, offset |-> clampedBegin,
               startOffset |-> begin, endOffset |-> end, seq |-> seq]),
              [ty |-> "END", name |-> name, offset |-> clampedEnd,
               startOffset |-> begin, endOffset |-> end, seq |-> seq])

compareScopes_SeqAscending(a, b) ==
    IF a.offset < b.offset THEN -1
    ELSE IF a.offset > b.offset THEN 1
    ELSE IF a.ty = "END" /\ b.ty = "BEGIN" THEN -1
    ELSE IF a.ty = "BEGIN" /\ b.ty = "END" THEN 1
    ELSE LET dir == IF a.ty = "BEGIN" THEN 1 ELSE -1
         IN IF a.startOffset < b.startOffset THEN -dir
            ELSE IF a.startOffset > b.startOffset THEN dir
            ELSE IF a.endOffset < b.endOffset THEN dir
            ELSE IF a.endOffset > b.endOffset THEN -dir
            ELSE IF a.seq < b.seq THEN -1
            ELSE IF a.seq > b.seq THEN 1
            ELSE 0

compareScopes(a, b) ==
    IF a.offset < b.offset THEN -1
    ELSE IF a.offset > b.offset THEN 1
    ELSE IF a.ty = "END" /\ b.ty = "BEGIN" THEN -1
    ELSE IF a.ty = "BEGIN" /\ b.ty = "END" THEN 1
    ELSE LET dir == IF a.ty = "BEGIN" THEN 1 ELSE -1
         IN IF a.startOffset < b.startOffset THEN -dir
            ELSE IF a.startOffset > b.startOffset THEN dir
            ELSE IF a.endOffset < b.endOffset THEN dir
            ELSE IF a.endOffset > b.endOffset THEN -dir
            ELSE IF a.seq < b.seq THEN -dir
            ELSE IF a.seq > b.seq THEN dir
            ELSE 0

(* qsort(line->scopes, ..., compareScopes): the events in the order of    *)
(* compareScopes; events that compare equal keep their order of emission.  *)
qsort(scopes) ==
    LET n == Len(scopes)
        before(j, i) ==
            \/ compareScopes(scopes[j], scopes[i]) < 0
            \/ compareScopes(scopes[j], scopes[i]) = 0 /\ j < i
        rank == [i \in 1..n |-> 1 + Cardinality({j \in 1..n : before(j, i)})]
    IN [k \in 1..n |-> scopes[CHOOSE i \in 1..n : rank[i] = k]]

----------------------------------------------------------------------------
(* The renderer.  While a line is rendered, M holds what renderLine and    *)
(* its callees change: the stack, seq, the line's scopes, the regions of   *)
(* the regsets, and the log.  cx holds what they only read: the bytes, the *)
(* grammar, and the line's begin (lb), end (le) and endIncludingNewline.   *)

(* a null pointer: no object, id 0 *)
NoRegion == [set |-> FALSE, regs |-> <<>>, id |-> 0]
NoRegex == [set |-> FALSE, items |-> <<>>, id |-> 0]

(* The allocator, as far as the frames' objects go: next is the id of the  *)
(* next object, held the objects allocated and not freed, released those   *)
(* freed, twice those handed to a free when they were not held.            *)
(* kinds[id] tells what object id is.                                      *)
NoHeap == [next |-> 1, held |-> {}, released |-> {}, twice |-> {}, kinds |-> <<>>]

(* onig_new, onig_region_new: the new object has id h.next *)
allocate(h, kind) ==
    [h EXCEPT !.next = @ + 1, !.held = @ \cup {h.next}, !.kinds = Append(@, kind)]

(* the pointers of the frames lo .. hi of the stack that are not null, as  *)
(* <<frame, field, id>>                                                    *)
pointers(stack, lo, hi) ==
    {<<j, "endRegex", stack[j].endRegex.id>> : j \in lo..hi}
    \cup {<<j, "whileRegex", stack[j].whileRegex.id>> : j \in lo..hi}
    \cup {<<j, "beginRegion", stack[j].beginRegion.id>> : j \in lo..hi}

(* onig_free and onig_region_free called with every pointer of ps: a null  *)
(* pointer is left alone                                                   *)
release(h, ps) ==
    [h EXCEPT !.held = @ \ {q[3] : q \in ps},
              !.released = @ \cup {q[3] : q \in {x \in ps : x[3] # 0}},
              !.twice = @ \cup {q[3] : q \in {x \in ps : x[3] # 0 /\
                                   (x[3] \notin h.held
                                    \/ \E y \in ps : y # x /\ y[3] = x[3])}}]

(* (activeState){ .s = s }: every other field zero *)
ZeroFrame(s) ==
    [s |-> s, p |-> Null, beginRegion |-> NoRegion, endRegex |-> NoRegex,
     whileRegex |-> NoRegex, beginOffset |-> 0, outerBegin |-> 0, outerSeq |-> 0,
     innerBegin |-> 0, innerSeq |-> 0]

createRenderer(bytes, len, startState) ==
    [bytes |-> bytes, length |-> len, offset |-> 0,
     stack |-> <<ZeroFrame(startState)>>, seq |-> 0]

Note(M, e) == [M EXCEPT !.log = Append(@, e)]

(* as popStack, but only the top frame is popped *)
popStack_OnlyTop(M, depth) ==
    IF Len(M.stack) > depth
    THEN [M EXCEPT !.stack = SubSeq(@, 1, Len(@) - 1),
                   !.heap = release(@, pointers(M.stack, Len(M.stack), Len(M.stack)))]
    ELSE M

(* as popStack, but the frames' begin regions are not freed *)
popStack_KeepsRegion(M, depth) ==
    IF Len(M.stack) > depth
    THEN [M EXCEPT !.stack = SubSeq(@, 1, depth),
                   !.heap = release(@, {q \in pointers(M.stack, depth + 1, Len(M.stack)) :
                                          q[2] # "beginRegion"})]
    ELSE M

popStack(M, depth) ==
    IF Len(M.stack) > depth
    THEN [M EXCEPT !.stack = SubSeq(@, 1, depth),
                   !.heap = release(@, pointers(M.stack, depth + 1, Len(M.stack)))]
    ELSE M

(* a region is either the caller's own (endWhileRegion) or the one the     *)
(* regset of state s keeps for its regex idx, which every later search of  *)
(* that regset clears and refills.                                         *)
OwnRegion(reg) == [kind |-> "own", reg |-> reg, s |-> Null, idx |-> 0]
RegsetRegion(s, idx) == [kind |-> "regset", reg |-> <<>>, s |-> s, idx |-> idx]

RegionOf(cx, M, ref) ==
    IF ref.kind = "own" THEN ref.reg
    ELSE IF M.rs[ref.s].idx = ref.idx THEN M.rs[ref.s].region
    ELSE ClearRegion(cx.pats[cx.sts[ref.s].patterns[ref.idx + 1].p].captures)

(* the text with every \d replaced by the escaped bytes of group d of the  *)
(* begin match: they match exactly those bytes.                            *)
RECURSIVE Expand(_, _, _, _)
Expand(text, beginRegion, beginOffset, bytes) ==
    IF text = <<>> THEN [ok |-> TRUE, items |-> <<>>]
    ELSE LET it == Head(text)
             rest == Expand(Tail(text), beginRegion, beginOffset, bytes)
         IN IF ~IsRef(it)
            THEN [ok |-> rest.ok, items |-> <<it>> \o rest.items]
            ELSE IF it.g >= Len(beginRegion) \/ beginRegion[it.g + 1][1] < 0
                    \/ beginRegion[it.g + 1][2] < beginRegion[it.g + 1][1]
            THEN [ok |-> FALSE, items |-> <<>>]
            ELSE LET start == beginOffset + beginRegion[it.g + 1][1]
                     end == beginOffset + beginRegion[it.g + 1][2]
                 IN [ok |-> rest.ok,
                     items |-> [j \in 1..(end - start) |-> Chr({bytes[start + j]})]
                               \o rest.items]

(* which is "endRegex" or "whileRegex" of frame fi; a is the caller's copy *)
(* of the frame.  cachedRegex is the regex the search runs with, if there  *)
(* is one, and M with the frame's cache filled.                            *)
expandedRegex(M, fi, which, ex) ==
    IF ~ex.ok THEN [ok |-> FALSE, items |-> <<>>, M |-> M]
    ELSE [ok |-> TRUE, items |-> ex.items,
          M |-> IF which = "endRegex"
                THEN [M EXCEPT !.stack[fi + 1].endRegex =
                                   [set |-> TRUE, items |-> ex.items, id |-> M.heap.next],
                               !.heap = allocate(@, which)]
                ELSE [M EXCEPT !.stack[fi + 1].whileRegex =
                                   [set |-> TRUE, items |-> ex.items, id |-> M.heap.next],
                               !.heap = allocate(@, which)]]

cachedRegex(cx, M, fi, a, which, pid) ==
    LET cache == IF which = "endRegex" THEN M.stack[fi + 1].endRegex
                 ELSE M.stack[fi + 1].whileRegex
    IN IF ~cx.pats[pid].backreferencingPattern
       THEN [ok |-> TRUE, items |-> cx.pats[pid].re, M |-> M]
       ELSE IF cache.set THEN [ok |-> TRUE, items |-> cache.items, M |-> M]
       ELSE IF ~a.beginRegion.set THEN [ok |-> FALSE, items |-> <<>>, M |-> M]
       ELSE expandedRegex(M, fi, which,
                          Expand(cx.pats[pid].text, a.beginRegion.regs, a.beginOffset,
                                 cx.bytes))

(* the trace of a search with a backreferencing pattern: the frame, what   *)
(* it was expanded against, whether the frame had the regex cached, and    *)
(* the regex re the search runs with                                       *)
NoteRegex(cx, re, fi, a, which, pid, cached) ==
    IF ~cx.pats[pid].backreferencingPattern THEN re
    ELSE [re EXCEPT !.M = Note(@, [k |-> "backref", fi |-> fi, which |-> which,
                                   pid |-> pid, cached |-> cached, ok |-> re.ok,
                                   items |-> re.items, beginRegion |-> a.beginRegion,
                                   beginOffset |-> a.beginOffset])]

searchWith(cx, re, pid, str, end, start, range, notBegin) ==
    [m |-> IF re.ok
           THEN OnigSearch(re.items, cx.pats[pid].captures, cx.bytes, str, end, start,
                           range, notBegin)
           ELSE NoMatch(cx.pats[pid].captures),
     M |-> re.M]

(* Returns the search result m and M.                                      *)
backreferencingSearch(cx, M, fi, a, which, pid, str, end, start, range, notBegin) ==
    searchWith(cx,
               NoteRegex(cx, cachedRegex(cx, M, fi, a, which, pid), fi, a, which, pid,
                         IF which = "endRegex" THEN M.stack[fi + 1].endRegex.set
                         ELSE M.stack[fi + 1].whileRegex.set),
               pid, str, end, start, range, notBegin)

(* the loop at the end of renderLine, ranges for all open scopes, over the *)
(* frames lo .. hi - 1 in stack order                                      *)
RECURSIVE openScopes(_, _, _, _, _)
openScopes(cx, M, lo, hi, end) ==
    IF lo >= Len(M.stack) \/ lo >= hi THEN M
    ELSE IF hi - lo > 1
    THEN openScopes(cx, openScopes(cx, M, lo, (lo + hi) \div 2, end),
                    (lo + hi) \div 2, hi, end)
    ELSE LET a == M.stack[lo + 1]
         IN IF a.p = Null THEN M
            ELSE addScopeRange(cx,
                   addScopeRange(cx, M, cx.pats[a.p].outerScope, a.outerSeq,
                                 a.outerBegin, end),
                   cx.pats[a.p].innerScope, a.innerSeq, a.innerBegin, end)

(* as BeginFrame, but the regexes of the frame are not cleared: they are   *)
(* those of the frame that was on top                                      *)
BeginFrame_KeepsRegex(cx, M, rule, region) ==
    [s |-> rule.to, p |-> rule.p,
     beginRegion |->
        IF cx.sts[rule.to].endPattern # Null
           /\ cx.pats[cx.sts[rule.to].endPattern].backreferencingPattern
        THEN [set |-> TRUE, regs |-> region, id |-> M.heap.next] ELSE NoRegion,
     endRegex |-> M.stack[Len(M.stack)].endRegex,
     whileRegex |-> M.stack[Len(M.stack)].whileRegex,
     beginOffset |-> cx.lb,
     outerBegin |-> At(cx, region[1][1]), outerSeq |-> M.seq,
     innerBegin |-> At(cx, region[1][2]), innerSeq |-> M.seq + 1]

(* the frame a BEGIN rule pushes *)
BeginFrame(cx, M, rule, region) ==
    [s |-> rule.to, p |-> rule.p,
     beginRegion |->
        IF cx.sts[rule.to].endPattern # Null
           /\ cx.pats[cx.sts[rule.to].endPattern].backreferencingPattern
        THEN [set |-> TRUE, regs |-> region, id |-> M.heap.next] ELSE NoRegion,
     endRegex |-> NoRegex, whileRegex |-> NoRegex,
     beginOffset |-> cx.lb,
     outerBegin |-> At(cx, region[1][1]), outerSeq |-> M.seq,
     innerBegin |-> At(cx, region[1][2]), innerSeq |-> M.seq + 1]

(* as RuleWins, but with the meaning of applyEndPatternLast inverted *)
RuleWins_EndLastInverted(res, endres, matchpos, endpos, applyEndPatternLast) ==
    res >= 0 /\ (endres < 0 \/ matchpos < endpos
                 \/ (~applyEndPatternLast /\ matchpos = endpos))

RuleWins_Always(res, endres, matchpos, endpos, applyEndPatternLast) == res >= 0

(* the condition under which the regset match is applied rather than the  *)
(* end match                                                               *)
RuleWins(res, endres, matchpos, endpos, applyEndPatternLast) ==
    res >= 0 /\ (endres < 0 \/ matchpos < endpos
                 \/ (applyEndPatternLast /\ matchpos = endpos))

RECURSIVE renderLine(_, _, _, _, _)
RECURSIVE renderCaptures(_, _, _, _, _)
RECURSIVE whileLoop(_, _, _, _, _)
RECURSIVE dispatchLoop(_, _, _, _, _)

(* the trace of a sub-render: the stack before the transient frame is     *)
(* pushed ("sub") and after it is popped ("subdone"); base is the          *)
(* stackBase of the sub-render                                             *)
NoteStack(M, k, base) == Note(M, [k |-> k, base |-> base, stack |-> M.stack])

(* as renderCapture, but the transient frame is left on the stack *)
renderCapture_KeepsFrame(cx, M, pid, reg, i) ==
    IF reg[1] < 0 THEN M
    ELSE IF cx.pats[pid].captureScopes[i + 1] # 0
    THEN addScopeRange(cx, [M EXCEPT !.seq = @ + 1], cx.pats[pid].captureScopes[i + 1],
                       M.seq, At(cx, reg[1]), At(cx, reg[2]))
    ELSE IF cx.pats[pid].captureStates[i + 1] # Null /\ Len(M.stack) # StackSize
    THEN NoteStack(renderLine(cx,
                     [NoteStack(M, "sub", Len(M.stack) + 1) EXCEPT !.stack =
                         Append(@, ZeroFrame(cx.pats[pid].captureStates[i + 1]))],
                     At(cx, reg[1]), At(cx, reg[2]), Len(M.stack) + 1),
                   "subdone", Len(M.stack) + 1)
    ELSE M

(* the body of the for loop of renderCaptures for group i, whose offsets   *)
(* are reg                                                                 *)
renderCapture(cx, M, pid, reg, i) ==
    IF reg[1] < 0 THEN M
    ELSE IF cx.pats[pid].captureScopes[i + 1] # 0
    THEN addScopeRange(cx, [M EXCEPT !.seq = @ + 1], cx.pats[pid].captureScopes[i + 1],
                       M.seq, At(cx, reg[1]), At(cx, reg[2]))
    ELSE IF cx.pats[pid].captureStates[i + 1] # Null /\ Len(M.stack) # StackSize
    THEN NoteStack(popStack(renderLine(cx,
                              [NoteStack(M, "sub", Len(M.stack) + 1) EXCEPT !.stack =
                                  Append(@, ZeroFrame(cx.pats[pid].captureStates[i + 1]))],
                              At(cx, reg[1]), At(cx, reg[2]), Len(M.stack) + 1),
                            Len(M.stack)),
                   "subdone", Len(M.stack) + 1)
    ELSE M

(* the for loop of renderCaptures, from group i on *)
renderCaptures(cx, M, pid, ref, i) ==
    IF i >= Len(RegionOf(cx, M, ref)) THEN M
    ELSE renderCaptures(cx, renderCapture(cx, M, pid, RegionOf(cx, M, ref)[i + 1], i),
                        pid, ref, i + 1)

(* the first frame at or above i whose state has a while pattern (frames  *)
(* without one are skipped by the loop), or the stack depth                *)
NextWhile(cx, M, i) ==
    LET S == {j \in i..(Len(M.stack) - 1) : cx.sts[M.stack[j + 1].s].whilePattern # Null}
    IN IF S = {} THEN Len(M.stack) ELSE CHOOSE j \in S : \A k \in S : j <= k

whileMatched_FrameBelow(cx, M1, i, reg, end) ==
    whileLoop(cx,
              [M1 EXCEPT !.stack[i].outerBegin = At(cx, reg[1][1]),
                         !.stack[i].innerBegin = At(cx, reg[1][2])],
              i + 1, At(cx, reg[1][2]), end)

(* the while pattern of frame i has matched with region reg, and M1 has    *)
(* its captures rendered                                                   *)
whileMatched(cx, M1, i, reg, end) ==
    whileLoop(cx,
              [M1 EXCEPT !.stack[i + 1].outerBegin = At(cx, reg[1][1]),
                         !.stack[i + 1].innerBegin = At(cx, reg[1][2])],
              i + 1, At(cx, reg[1][2]), end)

(* the while pattern pid of frame i has been searched for, with result sr  *)
whileSearched(cx, sr, i, pid, offset, end) ==
    IF sr.m.res < 0
    THEN [M |-> popStack(Note(sr.M, [k |-> "while", i |-> i, ok |-> FALSE,
                                     offset |-> offset, pos |-> -1]), i),
          offset |-> offset]
    ELSE whileMatched(cx,
                      renderCaptures(cx,
                                     Note(sr.M, [k |-> "while", i |-> i, ok |-> TRUE,
                                                 offset |-> offset,
                                                 pos |-> At(cx, sr.m.region[1][1])]),
                                     pid, OwnRegion(sr.m.region), 0),
                      i, sr.m.region, end)

(* the for loop of renderLine over the frames' while patterns, from frame  *)
(* i on; returns M and the offset it leaves.                               *)
whileLoop(cx, M, i, offset, end) ==
    IF i >= Len(M.stack) THEN [M |-> M, offset |-> offset]
    ELSE IF cx.sts[M.stack[i + 1].s].whilePattern = Null
    THEN whileLoop(cx, M, NextWhile(cx, M, i), offset, end)
    ELSE whileSearched(cx,
                       backreferencingSearch(cx, M, i, M.stack[i + 1], "whileRegex",
                                             cx.sts[M.stack[i + 1].s].whilePattern,
                                             cx.lb, cx.ein, offset, end, TRUE),
                       i, cx.sts[M.stack[i + 1].s].whilePattern, offset, end)

(* The while (matchesWithoutProgress < 32) loop of renderLine.  L holds    *)
(* the loop's variables: M, offset, maxOffset, matchesWithoutProgress, and *)
(* halted, set once the loop is left.  dispatchStep is one evaluation of   *)
(* the loop condition and body; the operators before it are the parts of   *)
(* the body, each taking what the parts before it have computed.           *)
Halt(L, M) == [L EXCEPT !.M = M, !.halted = TRUE]

(* what the trace tells of one evaluation of the body: a is the top frame, *)
(* er the result of the search for its end pattern, rs that of the regset  *)
Entry(cx, L, a, er, rs, stackBase) ==
    [k |-> "halt", why |-> "nomatch", base |-> stackBase, depth |-> Len(L.M.stack),
     s |-> a.s, offset |-> L.offset, maxOffset |-> L.maxOffset,
     res |-> rs.res, matchpos |-> rs.matchpos, endres |-> er.m.res,
     endpos |-> IF er.m.res >= 0 THEN er.m.region[1][1] ELSE -1,
     applyLast |-> cx.sts[a.s].applyEndPatternLast,
     p |-> a.p, innerBegin |-> a.innerBegin, outerBegin |-> a.outerBegin,
     innerSeq |-> a.innerSeq, outerSeq |-> a.outerSeq,
     from |-> L.offset, to |-> L.offset, after |-> Len(L.M.stack)]

(* r->stack[r->stackDepth++] = f, with the region f points to allocated, *)
(* and r->seq += 2                                                         *)
pushFrame(M, f) ==
    [M EXCEPT !.stack = Append(@, f), !.seq = @ + 2,
              !.heap = IF f.beginRegion.set THEN allocate(@, "beginRegion") ELSE @]

(* the accounting of progress after a rule was applied, its match ending   *)
(* at to                                                                   *)
ruleApplied(L, M3, e, rule, from, to) ==
    [M |-> Note(M3, [e EXCEPT !.k = "applied", !.why = rule.type, !.from = from,
                              !.to = to, !.after = Len(M3.stack)]),
     offset |-> to,
     maxOffset |-> IF to > L.maxOffset THEN to ELSE L.maxOffset,
     matchesWithoutProgress |-> IF to > L.maxOffset THEN 0
                                ELSE L.matchesWithoutProgress + 1,
     halted |-> FALSE]

(* the rule's captures are rendered in M2, and region is the rule's region *)
ruleCaptured(cx, L, M2, e, rule, region) ==
    IF rule.type = "BEGIN" /\ Len(M2.stack) = StackSize
    THEN Halt(L, Note(M2, [e EXCEPT !.k = "halt", !.why = "overflow",
                                    !.from = At(cx, region[1][1]),
                                    !.to = At(cx, region[1][2])]))
    ELSE ruleApplied(L,
                     IF rule.type = "BEGIN"
                     THEN pushFrame(M2, BeginFrame(cx, M2, rule, region))
                     ELSE M2,
                     e, rule, At(cx, region[1][1]), At(cx, region[1][2]))

(* the regset match wins: rule is the rule of the regex that matched *)
ruleMatched(cx, L, M2, e, rule, ref) ==
    ruleCaptured(cx, L, M2, e, rule, RegionOf(cx, M2, ref))

(* the frame is popped in M5 *)
endApplied(cx, L, M5, e, endRegion) ==
    [L EXCEPT !.M = Note(M5, [e EXCEPT !.k = "popped", !.why = "end",
                                       !.from = At(cx, endRegion[1][1]),
                                       !.to = At(cx, endRegion[1][2]),
                                       !.after = Len(M5.stack)]),
              !.offset = At(cx, endRegion[1][2])]

(* the end match wins: its captures are rendered in M2 *)
endMatched(cx, L, M2, e, a, endRegion, stackBase) ==
    IF Len(M2.stack) <= stackBase
    THEN Halt(L, Note(M2, [e EXCEPT !.k = "halt", !.why = "underflow",
                                    !.from = At(cx, endRegion[1][1]),
                                    !.to = At(cx, endRegion[1][2])]))
    ELSE endApplied(cx, L,
                    popStack(addScopeRange(cx,
                               addScopeRange(cx, M2, cx.pats[a.p].innerScope, a.innerSeq,
                                             a.innerBegin, At(cx, endRegion[1][1])),
                               cx.pats[a.p].outerScope, a.outerSeq, a.outerBegin,
                               At(cx, endRegion[1][2])),
                             Len(M2.stack) - 1),
                    e, endRegion)

(* both searches are done; M1 has the regions of the regset *)
searched(cx, L, M1, e, a, er, rs, stackBase) ==
    IF RuleWins(rs.res, er.m.res, rs.matchpos, er.m.region[1][1],
                cx.sts[a.s].applyEndPatternLast)
    THEN ruleMatched(cx, L,
                     renderCaptures(cx,
                                    Note(M1, [e EXCEPT !.k = "rule",
                                                !.why = cx.sts[a.s].patterns[rs.res + 1].type,
                                                !.from = At(cx, rs.region[1][1]),
                                                !.to = At(cx, rs.region[1][2])]),
                                    cx.sts[a.s].patterns[rs.res + 1].p,
                                    RegsetRegion(a.s, rs.res), 0),
                     e, cx.sts[a.s].patterns[rs.res + 1], RegsetRegion(a.s, rs.res))
    ELSE IF er.m.res >= 0
    THEN endMatched(cx, L,
                    renderCaptures(cx,
                                   Note(M1, [e EXCEPT !.k = "end", !.why = "end",
                                               !.from = At(cx, er.m.region[1][1]),
                                               !.to = At(cx, er.m.region[1][2])]),
                                   cx.sts[a.s].endPattern, OwnRegion(er.m.region), 0),
                    e, a, er.m.region, stackBase)
    ELSE Halt(L, Note(M1, e))

(* er is the result of the search for the end pattern, rs of the regset    *)
search(cx, L, a, er, rs, stackBase) ==
    searched(cx, L, [er.M EXCEPT !.rs[a.s] = [idx |-> rs.res, region |-> rs.region]],
             Entry(cx, L, a, er, rs, stackBase), a, er, rs, stackBase)

(* a is the top frame *)
dispatch(cx, L, a, end, stackBase) ==
    search(cx, L, a,
           IF cx.sts[a.s].endPattern # Null
           THEN backreferencingSearch(cx, L.M, Len(L.M.stack) - 1, a, "endRegex",
                                      cx.sts[a.s].endPattern, cx.lb, cx.ein, L.offset,
                                      end, L.offset > a.innerBegin)
           ELSE [m |-> NoMatch(1), M |-> L.M],
           RegsetSearch(cx.pats, cx.sts[a.s].patterns, cx.bytes, cx.lb, cx.ein,
                        L.offset, end, L.offset > a.innerBegin),
           stackBase)

dispatchStep(cx, L, end, stackBase) ==
    IF L.halted THEN L
    ELSE IF L.matchesWithoutProgress >= MaxNoProgress
    THEN Halt(L, Note(L.M, [k |-> "halt", why |-> "watchdog", base |-> stackBase]))
    ELSE IF L.M.stack[Len(L.M.stack)].s = Null
    THEN Halt(L, Note(L.M, [k |-> "halt", why |-> "nostate", base |-> stackBase]))
    ELSE dispatch(cx, L, L.M.stack[Len(L.M.stack)], end, stackBase)

(* the loop, run for at most n evaluations of its condition *)
dispatchLoop(cx, L, end, stackBase, n) ==
    IF L.halted \/ n <= 0 THEN L
    ELSE IF n = 1 THEN dispatchStep(cx, L, end, stackBase)
    ELSE dispatchLoop(cx, dispatchLoop(cx, L, end, stackBase, n \div 2),
                      end, stackBase, n - (n \div 2))

(* the end of renderLine: L is the dispatch loop as it was left *)
afterDispatch(cx, L, end, stackBase) ==
    Note(openScopes(cx,
                    Note(L.M, [k |-> "open", base |-> stackBase, depth |-> Len(L.M.stack),
                               halted |-> L.halted]),
                    stackBase, Len(L.M.stack), end),
         [k |-> "exit", base |-> stackBase])

(* renderLine after its while loop, which left A *)
afterWhile(cx, A, begin, end, stackBase) ==
    afterDispatch(cx,
        dispatchLoop(cx,
            [M |-> Note(A.M, [k |-> "dispatch", base |-> stackBase, begin |-> begin,
                              offset |-> A.offset, depth |-> Len(A.M.stack),
                              frames |-> [j \in 1..Len(A.M.stack) |->
                                            [s |-> A.M.stack[j].s, p |-> A.M.stack[j].p,
                                             outerSeq |-> A.M.stack[j].outerSeq,
                                             innerSeq |-> A.M.stack[j].innerSeq]]]),
             offset |-> A.offset, maxOffset |-> begin,
             matchesWithoutProgress |-> 0, halted |-> FALSE],
            end, stackBase, MaxIterations),
        end, stackBase)

renderLine(cx, M, begin, end, stackBase) ==
    IF begin = end THEN Note(M, [k |-> "skip", base |-> stackBase, begin |-> begin])
    ELSE afterWhile(cx,
                    whileLoop(cx,
                              Note(M, [k |-> "enter", base |-> stackBase, begin |-> begin,
                                       end |-> end, depth |-> Len(M.stack)]),
                              stackBase, begin, end),
                    begin, end, stackBase)

----------------------------------------------------------------------------
(* Grammars, built with the construction functions, and their inputs.      *)

(* a digit name that is a group number of the pattern *)
(* captureNameToInt.  result is a uint32_t: it is held as its two 16-bit   *)
(* halves, so that result * 10 + digit wraps as it does in C.              *)
Half == 2 ^ 16

RECURSIVE captureNameLoop(_, _, _, _)
captureNameLoop(captureName, i, hi, lo) ==
    IF i > Len(captureName)
    THEN IF hi >= Half \div 2 THEN -1 ELSE hi * Half + lo
    ELSE IF captureName[i] < 48 \/ captureName[i] > 57 THEN -1
    ELSE captureNameLoop(captureName, i + 1,
                         (hi * 10 + ((lo * 10 + (captureName[i] - 48)) \div Half)) % Half,
                         (lo * 10 + (captureName[i] - 48)) % Half)

captureNameToInt(captureName) == captureNameLoop(captureName, 1, 0, 0)

(* onig_name_to_group_numbers: the patterns of the model have no named     *)
(* groups, and a name of digits is no group name, so no group is found     *)
nameToGroupNumbers(p, name) == {}

setCaptureScope(p, name, scope) ==
    IF captureNameToInt(name) >= 0 /\ captureNameToInt(name) < p.captures
    THEN [p EXCEPT !.captureScopes[captureNameToInt(name) + 1] = scope]
    ELSE [p EXCEPT !.captureScopes =
            [i \in 1..p.captures |->
               IF (i - 1) \in nameToGroupNumbers(p, name) THEN scope ELSE @[i]]]

setCaptureState(p, name, s) ==
    IF captureNameToInt(name) >= 0 /\ captureNameToInt(name) < p.captures
    THEN [p EXCEPT !.captureStates[captureNameToInt(name) + 1] = s]
    ELSE [p EXCEPT !.captureStates =
            [i \in 1..p.captures |->
               IF (i - 1) \in nameToGroupNumbers(p, name) THEN s ELSE @[i]]]

MaxLen == 5
MaxLines == 8

Strings(A, n) == UNION {[1..k -> A] : k \in 0..n}

NotNewline == {34, 40, 41, 47, 49, 59, 60, 62, 92, 97, 98, 120}

(* a double-quoted string with escapes:                                    *)
(*   root: BEGIN " -> inside;  inside: MATCH \\. , END "                   *)
QuotedString ==
    [start |-> "root",
     pats |-> [quote |-> setOuterScope(setInnerScope(createPattern(<<Chr({34})>>, 1), 2), 1),
               escape |-> setCaptureScope(
                            createPattern(<<Chr({92}), Chr(NotNewline)>>, 1), <<48>>, 3),
               close |-> setCaptureScope(createPattern(<<Chr({34})>>, 1), <<48>>, 4)],
     sts |-> [root |-> addBegin(createState, "inside", "quote"),
              inside |-> setEnd(addMatch(createState, "escape"), "close", FALSE)],
     inputs |-> Strings({34, 92, NL}, MaxLen)]

(* a heredoc whose end repeats the byte the begin captured:                *)
(*   root: BEGIN <(a|b) -> body;  body: END \1                             *)
Heredoc ==
    [start |-> "root",
     pats |-> [open |-> setCaptureScope(setInnerScope(setOuterScope(
                          createPattern(<<Chr({60}), Open(1), Chr({97, 98}), Close(1)>>, 2),
                          1), 2), <<49>>, 3),
               close |-> createBackreferencingPattern(<<Ref(1)>>, 1)],
     sts |-> [root |-> addBegin(createState, "body", "open"),
              body |-> setEnd(createState, "close", FALSE)],
     inputs |-> Strings({60, 97, 98, NL}, MaxLen - 1)]

(* a line comment continued by a while pattern, with a nested pair:        *)
(*   root: BEGIN / -> cont;  cont: WHILE ^/ , BEGIN " -> pair;             *)
(*   pair: END "                                                           *)
Continuation ==
    [start |-> "root",
     pats |-> [slash |-> setInnerScope(setOuterScope(createPattern(<<Chr({47})>>, 1), 1), 2),
               again |-> setCaptureScope(createPattern(<<Bol, Chr({47})>>, 1), <<48>>, 5),
               quote |-> setInnerScope(setOuterScope(createPattern(<<Chr({34})>>, 1), 3), 4),
               close |-> createPattern(<<Chr({34})>>, 1)],
     sts |-> [root |-> addBegin(createState, "cont", "slash"),
              cont |-> setWhile(addBegin(createState, "pair", "quote"), "again"),
              pair |-> setEnd(createState, "close", FALSE)],
     inputs |-> Strings({47, 34, NL}, MaxLen)]

(* nested block quotes, each level kept by an unanchored while pattern:    *)
(*   root: BEGIN > -> quoted;  quoted: WHILE > , BEGIN > -> quoted,        *)
(*   MATCH a                                                               *)
BlockQuote ==
    [start |-> "root",
     pats |-> [mark |-> setOuterScope(createPattern(<<Chr({62})>>, 1), 1),
               keep |-> createPattern(<<Chr({62})>>, 1),
               word |-> setCaptureScope(createPattern(<<Chr({97})>>, 1), <<48>>, 2)],
     sts |-> [root |-> addBegin(createState, "quoted", "mark"),
              quoted |-> setWhile(addMatch(addBegin(createState, "quoted", "mark"),
                                           "word"), "keep")],
     inputs |-> Strings({62, 97, NL}, MaxLen)]

(* a rule and the end pattern of its state matching at the same offset:    *)
(*   root: BEGIN ( -> first , BEGIN < -> last;                             *)
(*   first: MATCH a , END a with applyEndPatternLast = false;              *)
(*   last:  MATCH a , END a with applyEndPatternLast = true                *)
EndTie ==
    [start |-> "root",
     pats |-> [paren |-> setOuterScope(setInnerScope(createPattern(<<Chr({40})>>, 1), 2), 1),
               angle |-> setOuterScope(setInnerScope(createPattern(<<Chr({60})>>, 1), 2), 1),
               any |-> setCaptureScope(createPattern(<<Chr({97})>>, 1), <<48>>, 3),
               close |-> setCaptureScope(createPattern(<<Chr({97})>>, 1), <<48>>, 4)],
     sts |-> [root |-> addBegin(addBegin(createState, "first", "paren"), "last", "angle"),
              first |-> setEnd(addMatch(createState, "any"), "close", FALSE),
              last |-> setEnd(addMatch(createState, "any"), "close", TRUE)],
     inputs |-> Strings({40, 60, 97, NL}, MaxLen - 1)]

(* no nesting, every kind of line terminator:                              *)
(*   root: MATCH a                                                         *)
Plain ==
    [start |-> "root",
     pats |-> [word |-> setCaptureScope(createPattern(<<Chr({97})>>, 1), <<48>>, 1)],
     sts |-> [root |-> addMatch(createState, "word")],
     inputs |-> Strings({97, NL, CR}, MaxLen)]

(* zero-width matches:                                                     *)
(*   root: MATCH (?=x) , MATCH a ,  BEGIN b -> in;  in: BEGIN (empty) ->   *)
(*   in2;  in2: END (empty)                                                *)
ZeroWidth ==
    [start |-> "root",
     pats |-> [ahead |-> setCaptureScope(createPattern(<<Ahead({120})>>, 1), <<48>>, 1),
               word |-> setCaptureScope(createPattern(<<Chr({97})>>, 1), <<48>>, 2),
               open |-> setOuterScope(createPattern(<<Chr({98})>>, 1), 3),
               empty |-> setOuterScope(createPattern(<<>>, 1), 4),
               none |-> createPattern(<<>>, 1)],
     sts |-> [root |-> addBegin(addMatch(addMatch(createState, "ahead"), "word"),
                                "in", "open"),
              in |-> addBegin(createState, "in2", "empty"),
              in2 |-> setEnd(createState, "none", FALSE)],
     inputs |-> Strings({120, 97, 98, NL}, MaxLen - 1)]

(* a state that enters itself, on a word or on an empty match:             *)
(*   root: BEGIN a -> root , BEGIN (empty) -> root                         *)
Deep ==
    [start |-> "root",
     pats |-> [word |-> setCaptureScope(createPattern(<<Chr({97})>>, 1), <<48>>, 2),
               empty |-> createPattern(<<>>, 1)],
     sts |-> [root |-> addBegin(addBegin(createState, "root", "word"), "root", "empty")],
     inputs |-> {[i \in 1..k |-> NL] : k \in 0..MaxLines}
                \cup {[i \in 1..(MaxLines + k) |-> IF i > MaxLines THEN 97 ELSE NL] :
                        k \in 1..2}]

(* sub-tokenization of a capture:                                          *)
(*   root: MATCH \(([^)]*+)\) with group 1 rendered by state args;         *)
(*   args: MATCH 1+ , BEGIN a -> word;  word: END a                        *)
CaptureState ==
    [start |-> "root",
     pats |-> [call |-> setCaptureScope(setCaptureState(
                          createPattern(<<Chr({40}), Open(1), Star(NotNewline \ {41}),
                                          Close(1), Chr({41})>>, 2), <<49>>, "args"), <<48>>, 1),
               number |-> setCaptureScope(
                            createPattern(<<Chr({49}), Star({49})>>, 1), <<48>>, 2),
               letter |-> setOuterScope(createPattern(<<Chr({97})>>, 1), 3),
               close |-> createPattern(<<Chr({97})>>, 1)],
     sts |-> [root |-> addMatch(createState, "call"),
              args |-> addBegin(addMatch(createState, "number"), "word", "letter"),
              word |-> setEnd(createState, "close", FALSE)],
     inputs |-> Strings({40, 41, 49, 97}, MaxLen - 1) \cup Strings({40, 41, 49, NL}, MaxLen - 1)]

(* end patterns in states that are entered at the base of a stack:         *)
(*   root: MATCH \(([^)]*+)\) with group 1 rendered by state inner,         *)
(*   MATCH a , END ; ;  inner: END a                                       *)
BaseEnd ==
    [start |-> "root",
     pats |-> [call |-> setCaptureState(
                          createPattern(<<Chr({40}), Open(1), Star(NotNewline \ {41}),
                                          Close(1), Chr({41})>>, 2), <<49>>, "inner"),
               word |-> setCaptureScope(createPattern(<<Chr({97})>>, 1), <<48>>, 1),
               semi |-> setCaptureScope(createPattern(<<Chr({59})>>, 1), <<48>>, 4),
               close |-> setCaptureScope(createPattern(<<Chr({97})>>, 1), <<48>>, 5)],
     sts |-> [root |-> setEnd(addMatch(addMatch(createState, "call"), "word"),
                              "semi", FALSE),
              inner |-> setEnd(createState, "close", FALSE)],
     inputs |-> Strings({40, 41, 59, 97}, MaxLen - 1)]

(* heredocs within heredocs:                                               *)
(*   root: BEGIN <(a|b) -> body;  body: BEGIN <(a|b) -> body , END \1      *)
NestedHeredoc ==
    [start |-> "root",
     pats |-> [open |-> setOuterScope(
                          createPattern(<<Chr({60}), Open(1), Chr({97, 98}), Close(1)>>, 2),
                          1),
               close |-> createBackreferencingPattern(<<Ref(1)>>, 1)],
     sts |-> [root |-> addBegin(createState, "body", "open"),
              body |-> setEnd(addBegin(createState, "body", "open"), "close", FALSE)],
     inputs |-> Strings({60, 97, 98, NL}, MaxLen)]

(* lines that go on while they begin with the letter that opened them:    *)
(*   root: BEGIN (a|b) -> body;  body: MATCH b , while pattern \1         *)
Repeated ==
    [start |-> "root",
     pats |-> [open |-> setOuterScope(
                          createPattern(<<Open(1), Chr({97, 98}), Close(1)>>, 2), 1),
               keep |-> createBackreferencingPattern(<<Ref(1)>>, 1),
               word |-> setCaptureScope(createPattern(<<Chr({98})>>, 1), <<48>>, 2)],
     sts |-> [root |-> addBegin(createState, "body", "open"),
              body |-> setWhile(addMatch(createState, "word"), "keep")],
     inputs |-> Strings({97, 98, NL}, MaxLen - 1)]

(* a capture rendered by a state whose rules reach the capture's end:      *)
(*   root: MATCH \(([^)]*+)\) with group 1 rendered by state args;          *)
(*   args: BEGIN a -> word;  word: END \)                                  *)
CaptureEdge ==
    [start |-> "root",
     pats |-> [call |-> setCaptureState(
                          createPattern(<<Chr({40}), Open(1), Star(NotNewline \ {41}),
                                          Close(1), Chr({41})>>, 2), <<49>>, "args"),
               letter |-> setOuterScope(createPattern(<<Chr({97})>>, 1), 3),
               close |-> createPattern(<<Chr({41})>>, 1)],
     sts |-> [root |-> addMatch(createState, "call"),
              args |-> addBegin(createState, "word", "letter"),
              word |-> setEnd(createState, "close", FALSE)],
     inputs |-> Strings({40, 41, 97}, MaxLen - 1)]

(* a block that goes on while its lines begin with the opening letter and *)
(* ends at a ';' followed by that letter:                                  *)
(*   root: BEGIN (a) -> body;  body: while pattern \1 , END ;\1            *)
Guarded ==
    [start |-> "root",
     pats |-> [open |-> setOuterScope(
                          createPattern(<<Open(1), Chr({97}), Close(1)>>, 2), 1),
               keep |-> createBackreferencingPattern(<<Ref(1)>>, 1),
               close |-> createBackreferencingPattern(<<Chr({59}), Ref(1)>>, 1)],
     sts |-> [root |-> addBegin(createState, "body", "open"),
              body |-> setWhile(setEnd(createState, "close", FALSE), "keep")],
     inputs |-> Strings({59, 97, NL}, MaxLen)]

(* a rule with a capture rendered by the state the rule is in:            *)
(*   root: BEGIN <(a) -> body with group 1 rendered by root , MATCH a;     *)
(*   body: END >                                                           *)
SelfCapture ==
    [start |-> "root",
     pats |-> [open |-> setCaptureState(setOuterScope(
                          createPattern(<<Chr({60}), Open(1), Chr({97}), Close(1)>>, 2),
                          2), <<49>>, "root"),
               word |-> setCaptureScope(createPattern(<<Chr({97})>>, 1), <<48>>, 1),
               close |-> createPattern(<<Chr({62})>>, 1)],
     sts |-> [root |-> addMatch(addBegin(createState, "body", "open"), "word"),
              body |-> setEnd(createState, "close", FALSE)],
     inputs |-> Strings({60, 62, 97, NL}, MaxLen - 1)]

Grammars ==
    {Plain, QuotedString, Heredoc, Continuation, BlockQuote, EndTie, ZeroWidth, Deep,
     CaptureState, BaseEnd, NestedHeredoc, Repeated, CaptureEdge, Guarded, SelfCapture}

----------------------------------------------------------------------------
(* The state machine: a renderer is created over an input and a grammar,   *)
(* and renderNextLine is called again and again.                           *)

NoLine == [scopes |-> <<>>, begin |-> 0, end |-> 0, endIncludingNewline |-> 0]

Init ==
    \E g \in Grammars : \E input \in g.inputs :
        /\ patterns = g.pats
        /\ states = g.sts
        /\ regsets = [s \in DOMAIN g.sts |-> [idx |-> -1, region |-> <<>>]]
        /\ r = createRenderer(input, Len(input), g.start)
        /\ line = NoLine
        /\ ret = "none"
        /\ prev = [offset |-> 0, stack |-> <<>>, seq |-> 0]
        /\ consumed = 0
        /\ log = <<>>
        /\ heap = NoHeap

(* the line of a call of renderNextLine that returns true: adv is what    *)
(* advanceToNextLine returns                                               *)
Context(adv) ==
    [bytes |-> r.bytes, pats |-> patterns, sts |-> states,
     lb |-> r.offset, le |-> adv.beforeNewline, ein |-> adv.offset]

(* renderNextLine returning true *)
renderNextLine ==
    /\ ret # "freed"
    /\ r.offset < r.length
    /\ \E cx \in {Context(advanceToNextLine(r.bytes, r.length, r.offset))} :
       \E M \in {renderLine(cx,
                            [stack |-> r.stack, seq |-> r.seq, scopes |-> <<>>,
                             rs |-> regsets, log |-> <<>>, heap |-> heap],
                            cx.lb, cx.ein, 1)} :
          /\ r' = [r EXCEPT !.offset = cx.ein, !.stack = M.stack, !.seq = M.seq]
          /\ regsets' = M.rs
          /\ line' = [scopes |-> qsort(M.scopes), begin |-> cx.lb, end |-> cx.le,
                      endIncludingNewline |-> cx.ein]
          /\ consumed' = consumed + (cx.ein - cx.lb)
          /\ log' = M.log
          /\ heap' = M.heap
    /\ ret' = "line"
    /\ prev' = [offset |-> r.offset, stack |-> r.stack, seq |-> r.seq]
    /\ UNCHANGED <<patterns, states>>

(* renderNextLine returning false *)
renderNextLineEnd ==
    /\ ret # "freed"
    /\ r.offset >= r.length
    /\ ret' = "eof"
    /\ prev' = [offset |-> r.offset, stack |-> r.stack, seq |-> r.seq]
    /\ log' = <<>>
    /\ UNCHANGED <<patterns, states, regsets, r, line, consumed, heap>>

Next == renderNextLine \/ renderNextLineEnd

Spec == Init /\ [][Next]_vars

(* ---- the renderer's whole life: freeRenderer may follow any call ---- *)

(* freeRenderer: popStack(r, 0), then the renderer is gone *)
freeRenderer ==
    /\ ret # "freed"
    /\ \E M \in {popStack([stack |-> r.stack, heap |-> heap], 0)} :
          /\ r' = [r EXCEPT !.stack = M.stack]
          /\ heap' = M.heap
    /\ ret' = "freed"
    /\ prev' = [offset |-> r.offset, stack |-> r.stack, seq |-> r.seq]
    /\ UNCHANGED <<patterns, states, regsets, line, consumed, log>>

LifeNext == renderNextLine \/ renderNextLineEnd \/ freeRenderer

LifeSpec == Init /\ [][LifeNext]_vars

(* ---- the capture setters, applied to a pattern under construction ---- *)

MaxDigits == 2
MaxGroups == 3

(* "2147483647" (INT_MAX), "2147483648", "4294967295", "4294967296"        *)
(* (2^32), "4294967297", "4294967299" and "9999999999"                     *)
WideNames ==
    {<<50, 49, 52, 55, 52, 56, 51, 54, 52, 55>>,
     <<50, 49, 52, 55, 52, 56, 51, 54, 52, 56>>,
     <<52, 50, 57, 52, 57, 54, 55, 50, 57, 53>>,
     <<52, 50, 57, 52, 57, 54, 55, 50, 57, 54>>,
     <<52, 50, 57, 52, 57, 54, 55, 50, 57, 55>>,
     <<52, 50, 57, 52, 57, 54, 55, 50, 57, 57>>,
     <<57, 57, 57, 57, 57, 57, 57, 57, 57, 57>>}

CaptureNames == Strings(48..57, MaxDigits) \cup Strings({97}, 1) \cup WideNames

(* a regex of n - 1 groups: onig_number_of_captures + 1 is n *)
Groups(n) ==
    [i \in 1..(3 * (n - 1)) |->
        IF i % 3 = 1 THEN Open((i + 2) \div 3)
        ELSE IF i % 3 = 2 THEN Chr({97})
        ELSE Close(i \div 3)]

SetterInit ==
    \E n \in 1..MaxGroups : \E name \in CaptureNames :
        /\ patterns = [p |-> createPattern(Groups(n), n)]
        /\ states = [s \in {"target"} |-> createState]
        /\ regsets = [s \in {"target"} |-> [idx |-> -1, region |-> <<>>]]
        /\ r = createRenderer(<<>>, 0, "target")
        /\ line = NoLine
        /\ ret = "none"
        /\ prev = patterns.p
        /\ consumed = 0
        /\ log = <<name>>
        /\ heap = NoHeap

callSetCaptureScope ==
    /\ ret = "none"
    /\ patterns' = [p |-> setCaptureScope(patterns.p, log[1], 7)]
    /\ prev' = patterns.p
    /\ ret' = "scope"
    /\ UNCHANGED <<states, regsets, r, line, consumed, log, heap>>

callSetCaptureState ==
    /\ ret = "none"
    /\ patterns' = [p |-> setCaptureState(patterns.p, log[1], "target")]
    /\ prev' = patterns.p
    /\ ret' = "state"
    /\ UNCHANGED <<states, regsets, r, line, consumed, log, heap>>

SetterNext == callSetCaptureScope \/ callSetCaptureState

SetterSpec == SetterInit /\ [][SetterNext]_vars

(* ---- compareScopes, applied to the events qsort hands it ---- *)

MaxField == 1

ScopeEvents ==
    [ty : {"BEGIN", "END"}, name : {1}, offset : 0..MaxField,
     startOffset : 0..MaxField, endOffset : 0..MaxField, seq : 0..MaxField]

CompareInit ==
    \E a \in ScopeEvents : \E b \in ScopeEvents :
        /\ patterns = [p |-> createPattern(<<>>, 1)]
        /\ states = [s \in {"root"} |-> createState]
        /\ regsets = [s \in {"root"} |-> [idx |-> -1, region |-> <<>>]]
        /\ r = createRenderer(<<>>, 0, "root")
        /\ line = [NoLine EXCEPT !.scopes = <<a, b>>]
        /\ ret = "none"
        /\ prev = [offset |-> 0, stack |-> <<>>, seq |-> 0]
        /\ consumed = 0
        /\ log = <<>>
        /\ heap = NoHeap

(* the calls qsort makes with the two events of the line, in both orders,  *)
(* and with each of them and any third event                               *)
callCompareScopes ==
    /\ ret = "none"
    /\ log' = [ab |-> compareScopes(line.scopes[1], line.scopes[2]),
               ba |-> compareScopes(line.scopes[2], line.scopes[1]),
               bc |-> [c \in ScopeEvents |-> compareScopes(line.scopes[2], c)],
               ac |-> [c \in ScopeEvents |-> compareScopes(line.scopes[1], c)]]
    /\ ret' = "compared"
    /\ UNCHANGED <<patterns, states, regsets, r, line, prev, consumed, heap>>

CompareNext == callCompareScopes

CompareSpec == CompareInit /\ [][CompareNext]_vars

----------------------------------------------------------------------------
(* Properties.  In each, Returned says that the last call returned a line, *)
(* so that line, prev and log describe that call.                          *)

Returned == ret = "line"

Byte(o) == r.bytes[o + 1]

Slice(from, to) == [i \in 1..(to - from) |-> Byte(from + i - 1)]

(* C1: a call returns false exactly when the cursor is at or past the      *)
(* length, and then leaves the cursor where it was; otherwise it returns a *)
(* line that begins at the cursor and moves the cursor to the line's       *)
(* endIncludingNewline, which is past its begin.  The cursor is the sum of *)
(* endIncludingNewline - begin over the lines returned and consecutive     *)
(* lines are contiguous.  Every call that returns a line brings the cursor *)
(* nearer to the length, which it never passes, and every call made with   *)
(* the cursor at the length returns false: so repeated calls come to       *)
(* return false.                                                           *)
C1_EachCall ==
    /\ ret = "eof" => prev.offset >= r.length /\ r.offset = prev.offset
    /\ ret = "line" => /\ prev.offset < r.length
                       /\ line.begin = prev.offset
                       /\ r.offset = line.endIncludingNewline
                       /\ line.endIncludingNewline > line.begin
    /\ r.offset = consumed
    /\ r.offset <= r.length

C1_Step ==
    /\ (ret = "line" /\ ret' = "line") => line'.begin = line.endIncludingNewline
    /\ ret' = "line" => r'.length - r'.offset < r.length - r.offset
    /\ r.offset >= r.length => ret' = "eof"

C1_Progress == [](C1_EachCall) /\ [][C1_Step]_vars

C1_Witness ==
    ret = "eof" /\ line.begin > 0 /\ line.endIncludingNewline - line.begin > 1

(* C2: the bytes of a returned line hold no '\n' and no '\r'; what follows *)
(* them up to endIncludingNewline is one terminator, "\n", "\r" or "\r\n"  *)
(* (a '\r' is a terminator of its own only when no '\n' follows it), or    *)
(* nothing, and nothing only at the end of the input.                      *)
C2_Terminator ==
    Returned =>
        /\ line.begin <= line.end /\ line.end <= line.endIncludingNewline
        /\ line.endIncludingNewline <= r.length
        /\ \A o \in line.begin..(line.end - 1) : Byte(o) \notin {NL, CR}
        /\ Slice(line.end, line.endIncludingNewline) \in {<<>>, <<NL>>, <<CR>>, <<CR, NL>>}
        /\ Slice(line.end, line.endIncludingNewline) = <<CR>> =>
              (line.endIncludingNewline = r.length \/ Byte(line.endIncludingNewline) # NL)
        /\ line.end = line.endIncludingNewline => line.end = r.length

C2_Witness ==
    /\ Returned /\ line.begin > 0 /\ line.end > line.begin
    /\ Slice(line.end, line.endIncludingNewline) = <<CR, NL>>

(* The entries of the log of the last call whose kind is in K. *)
Entries(K) == {i \in DOMAIN log : log[i].k \in K}

(* the entry that tells what became of the rule or end match logged at i:  *)
(* the next "applied", "popped" or "halt" entry of the same invocation     *)
Outcome(i) ==
    LET S == {j \in Entries({"applied", "popped", "halt"}) :
                j > i /\ log[j].base = log[i].base}
    IN CHOOSE j \in S : \A m \in S : j <= m

(* C3: scanning the sorted events of a returned line with a stack, every   *)
(* END event finds the BEGIN event of its own seq on top of the stack.     *)
RECURSIVE Nested(_, _, _)
Nested(ev, i, open) ==
    IF i > Len(ev) THEN TRUE
    ELSE IF ev[i].ty = "BEGIN" THEN Nested(ev, i + 1, <<ev[i].seq>> \o open)
    ELSE open # <<>> /\ Head(open) = ev[i].seq /\ Nested(ev, i + 1, Tail(open))

C3_WellNested == Returned => Nested(line.scopes, 1, <<>>)

(* C4: a returned line has as many BEGIN events as END events, and every   *)
(* prefix of its sorted events has at least as many BEGIN as END events.   *)
Count(ev, n, ty) == Cardinality({i \in 1..n : ev[i].ty = ty})

C4_Balanced ==
    Returned =>
        /\ Count(line.scopes, Len(line.scopes), "BEGIN")
             = Count(line.scopes, Len(line.scopes), "END")
        /\ \A n \in 1..Len(line.scopes) :
             Count(line.scopes, n, "BEGIN") >= Count(line.scopes, n, "END")

C4_Witness ==
    /\ Returned /\ line.begin > 0 /\ Len(line.scopes) >= 6
    /\ \E i \in DOMAIN line.scopes : line.scopes[i].startOffset < line.begin
    /\ \E i \in DOMAIN line.scopes : line.scopes[i].endOffset > line.end
    /\ \E i \in DOMAIN line.scopes :
         /\ line.scopes[i].startOffset >= line.begin
         /\ line.scopes[i].endOffset <= line.end

(* C5: every event of a returned line has its offset in [line.begin,       *)
(* line.end], whatever the begin and end its range was added with; the     *)
(* events are one BEGIN and one END, at the clamped begin and end, for     *)
(* each range added with a name other than 0 and a clamped extent that is  *)
(* not empty, and nothing for any other range.                             *)
Clamped(i) ==
    [begin |-> IF log[i].begin < line.begin THEN line.begin ELSE log[i].begin,
     end |-> IF log[i].end > line.end THEN line.end ELSE log[i].end]

Emits(i) == log[i].name # 0 /\ Clamped(i).begin < Clamped(i).end

EventOf(i, ty, offset) ==
    [ty |-> ty, name |-> log[i].name, offset |-> offset,
     startOffset |-> log[i].begin, endOffset |-> log[i].end, seq |-> log[i].seq]

C5_Clamped ==
    Returned =>
        LET E == {line.scopes[j] : j \in DOMAIN line.scopes}
            R == {i \in Entries({"range"}) : Emits(i)}
        IN /\ \A e \in E : line.begin <= e.offset /\ e.offset <= line.end
           /\ E = {EventOf(i, "BEGIN", Clamped(i).begin) : i \in R}
                  \cup {EventOf(i, "END", Clamped(i).end) : i \in R}
           /\ Len(line.scopes) = 2 * Cardinality(R)

C5_Witness ==
    /\ Returned
    /\ \E i \in Entries({"range"}) :
         Emits(i) /\ log[i].begin < line.begin /\ log[i].end > line.end
    /\ \E i \in Entries({"range"}) : log[i].name = 0
    /\ \E i \in Entries({"range"}) : log[i].name # 0 /\ ~Emits(i)

(* C6, as stated: on a line of length 0 no rule and no end pattern is      *)
(* matched.                                                                *)
C6_NoRuleOnEmptyLine ==
    (Returned /\ line.begin = line.end) =>
        \A i \in DOMAIN log : log[i].k \notin {"rule", "end"}

(* C6, amended: a line of length 0 has no scope events at all, since every *)
(* range is clamped to the empty [line.begin, line.end]; rules and end     *)
(* patterns are still searched for, over the bytes of the terminator, and  *)
(* the matches they find there lie in [line.begin,                         *)
(* line.endIncludingNewline] and push and pop frames as on any line.       *)
C6_EmptyLine ==
    (Returned /\ line.begin = line.end) =>
        /\ line.scopes = <<>>
        /\ \E i \in DOMAIN log : log[i].k = "dispatch" /\ log[i].base = 1
        /\ \A i \in Entries({"rule", "end"}) :
             /\ line.begin <= log[i].from /\ log[i].from <= log[i].to
             /\ log[i].to <= line.endIncludingNewline
        /\ \A i \in Entries({"applied"}) :
             log[i].why = "BEGIN" => log[i].after = log[i].depth + 1
        /\ \A i \in Entries({"popped"}) : log[i].after = log[i].depth - 1

C6_Witness ==
    /\ Returned /\ line.begin = line.end
    /\ \E i \in Entries({"applied"}) : log[i].why = "BEGIN" /\ log[i].after > log[i].depth
    /\ \E i \in Entries({"popped"}) : log[i].after < log[i].depth
    /\ r.stack # prev.stack

(* C7: a rule of the top frame's state and its end pattern match at the    *)
(* same offset.                                                            *)
Tie(i) ==
    /\ log[i].k \in {"rule", "end"}
    /\ log[i].res >= 0 /\ log[i].endres >= 0
    /\ log[i].matchpos = log[i].endpos

(* C7, as stated: at a tie the rule wins when applyEndPatternLast is       *)
(* false, and the end pattern wins when it is true.                        *)
C7_RuleWinsUnlessLast ==
    Returned =>
        \A i \in DOMAIN log :
            Tie(i) => log[i].k = (IF log[i].applyLast THEN "end" ELSE "rule")

(* C7, amended: at a tie the end pattern wins when applyEndPatternLast is  *)
(* false, and the frame is popped (or, at the base of the stack, the loop  *)
(* halts); the rule wins when applyEndPatternLast is true, and the frame   *)
(* stays.                                                                  *)
C7_EndWinsUnlessLast ==
    Returned =>
        \A i \in DOMAIN log :
            Tie(i) =>
                IF log[i].applyLast
                THEN /\ log[i].k = "rule"
                     /\ \/ /\ log[Outcome(i)].k = "applied"
                           /\ log[Outcome(i)].after >= log[i].depth
                        \/ /\ log[Outcome(i)].k = "halt"
                           /\ log[Outcome(i)].why = "overflow"
                ELSE /\ log[i].k = "end"
                     /\ \/ /\ log[Outcome(i)].k = "popped"
                           /\ log[Outcome(i)].after = log[i].depth - 1
                        \/ /\ log[Outcome(i)].k = "halt"
                           /\ log[Outcome(i)].why = "underflow"

C7_Witness ==
    /\ Returned
    /\ \E i \in DOMAIN log :
         Tie(i) /\ log[i].applyLast /\ log[Outcome(i)].k = "applied"
    /\ \E i \in DOMAIN log :
         Tie(i) /\ ~log[i].applyLast /\ log[Outcome(i)].k = "popped"

(* C8: at the start of a line the frames above the bottom one whose state  *)
(* has a while pattern are checked in stack order, up to the first whose   *)
(* while pattern does not match; that frame and the frames above it are    *)
(* popped, the frames below it stay, and no event of the line belongs to   *)
(* a popped frame.                                                         *)
Failed == {i \in Entries({"while"}) : ~log[i].ok}

Cut == IF Failed = {} THEN Len(prev.stack) ELSE log[CHOOSE i \in Failed : TRUE].i

Identity(f) == [s |-> f.s, p |-> f.p, outerSeq |-> f.outerSeq, innerSeq |-> f.innerSeq]

C8_WhileFailure ==
    Returned =>
        LET W == Entries({"while"})
            A == CHOOSE d \in Entries({"dispatch"}) : log[d].base = 1
        IN /\ Cardinality(Failed) <= 1
           /\ \A i \in Failed : \A j \in W : j <= i
           /\ \A i, j \in W : i < j => log[i].i < log[j].i
           /\ {log[i].i : i \in W}
                = {j \in 1..(Len(prev.stack) - 1) :
                     j <= Cut /\ states[prev.stack[j + 1].s].whilePattern # Null}
           /\ \A i \in W : i < A
           /\ log[A].depth = Cut
           /\ log[A].frames = [j \in 1..Cut |-> Identity(prev.stack[j])]
           /\ \A j \in (Cut + 1)..Len(prev.stack) :
                \A e \in DOMAIN line.scopes :
                    line.scopes[e].seq \notin {prev.stack[j].outerSeq,
                                               prev.stack[j].innerSeq}

C8_Witness ==
    /\ Returned /\ line.end > line.begin
    /\ \E i \in Failed : log[i].i > 1 /\ Len(prev.stack) > log[i].i + 1
    /\ \E i \in Entries({"while"}) : log[i].ok
    /\ line.scopes # <<>>

(* C9: every dispatch loop of a call comes to a halt, and no loop applies  *)
(* more than 32 rule matches in a row that do not end past the furthest    *)
(* offset its matches have reached.                                        *)
RECURSIVE Stalls(_, _, _)
Stalls(es, i, loops) ==
    IF i > Len(es) THEN TRUE
    ELSE IF es[i].k = "dispatch"
    THEN Stalls(es, i + 1, <<[furthest |-> es[i].begin, run |-> 0]>> \o loops)
    ELSE IF es[i].k = "open" THEN es[i].halted /\ Stalls(es, i + 1, Tail(loops))
    ELSE LET top == Head(loops)
             new == IF es[i].to > top.furthest
                    THEN [furthest |-> es[i].to, run |-> 0]
                    ELSE [furthest |-> top.furthest, run |-> top.run + 1]
         IN new.run <= 32 /\ Stalls(es, i + 1, <<new>> \o Tail(loops))

IsLoopEntry(e) == e.k \in {"dispatch", "applied", "open"}

C9_Terminates ==
    Returned =>
        /\ Stalls(SelectSeq(log, IsLoopEntry), 1, <<>>)
        /\ Cardinality(Entries({"dispatch"})) = Cardinality(Entries({"open"}))

C9_Witness ==
    /\ Returned
    /\ \E i \in Entries({"halt"}) : log[i].why = "watchdog"
    /\ Cardinality({i \in Entries({"applied"}) : log[i].to <= log[i].maxOffset}) = 32
    /\ \E i \in Entries({"popped"}) : log[i].from = log[i].to

(* C10: when a BEGIN rule wins with the stack full, the push is skipped,   *)
(* the capture scopes of the begin match are kept, and the dispatch loop   *)
(* goes on from the end of the match.                                      *)
Overflows == {i \in Entries({"halt"}) : log[i].why = "overflow"}

Following(i) ==
    LET S == {j \in Entries({"rule", "end", "halt", "open"}) :
                j > i /\ log[j].base = log[i].base}
    IN CHOOSE j \in S : \A m \in S : j <= m

C10_ContinuesAfterOverflow ==
    Returned =>
        \A i \in Overflows :
            /\ log[i].depth = StackSize
            /\ log[Following(i)].k # "open"
            /\ log[Following(i)].why \in {"MATCH", "BEGIN", "end", "nomatch"} =>
                 log[Following(i)].offset = log[i].to

(* C11: when an end pattern matches with no frame above the base of the    *)
(* stack, the stack stays as it is, no scope range is added for the end    *)
(* match, and the dispatch loop is left.                                   *)
Underflows == {i \in Entries({"halt"}) : log[i].why = "underflow"}

(* the entry of the end match that the halt at i belongs to *)
EndOf(i) ==
    LET S == {j \in Entries({"end"}) : j < i /\ log[j].base = log[i].base}
    IN CHOOSE j \in S : \A m \in S : m <= j

C11_EndIgnored ==
    Returned =>
        \A i \in Underflows :
            /\ log[i].depth <= log[i].base
            /\ log[Following(i)].k = "open"
            /\ log[Following(i)].depth = log[i].depth
            /\ \A m \in EndOf(i)..i : log[m].k # "range"

(* C12: rendering the captures of a match leaves the stack as it was.  A   *)
(* sub-render through a capture state ends with the stack it began with,   *)
(* whatever frames its BEGIN rules pushed; and after the captures of a     *)
(* rule or end match are rendered the depth is the one the match was made  *)
(* at, plus the frame of a BEGIN rule, minus the frame an end match pops.   *)
SubDone(i) ==
    LET S == {j \in Entries({"subdone"}) : j > i /\ log[j].base = log[i].base}
    IN CHOOSE j \in S : \A m \in S : j <= m

C12_CapturesKeepStack ==
    Returned =>
        /\ \A i \in Entries({"sub"}) :
             /\ \E j \in Entries({"subdone"}) : j > i /\ log[j].base = log[i].base
             /\ log[SubDone(i)].stack = log[i].stack
             /\ log[i].base = Len(log[i].stack) + 1
        /\ \A i \in Entries({"applied"}) :
             log[i].after = log[i].depth + (IF log[i].why = "BEGIN" THEN 1 ELSE 0)
        /\ \A i \in Entries({"popped"}) : log[i].after = log[i].depth - 1
        /\ \A i \in Entries({"halt"}) :
             log[i].why \in {"overflow", "underflow"} =>
                 log[Following(i)].depth = log[i].depth

C12_Witness ==
    /\ Returned
    /\ \E i \in Entries({"sub"}) :
         /\ \E j \in Entries({"applied"}) :
              /\ i < j /\ j < SubDone(i)
              /\ log[j].base = log[i].base /\ log[j].why = "BEGIN"
         /\ \E j \in Entries({"open"}) :
              /\ i < j /\ j < SubDone(i)
              /\ log[j].base = log[i].base /\ log[j].depth > log[i].base
         /\ log[SubDone(i)].stack = log[i].stack

(* C13: the regex a search with a backreferencing pattern runs with is the *)
(* expansion of the pattern's text against the begin match of the frame    *)
(* the search is made for; the regex cached in a frame on the stack is     *)
(* that expansion; and the first search for a frame just pushed finds no   *)
(* cached regex, whatever frame was in its place before.                   *)
OwnExpansion(pid, beginRegion, beginOffset) ==
    Expand(patterns[pid].text, beginRegion.regs, beginOffset, r.bytes)

CachedOwn(f, cache, pid) ==
    cache.set =>
        /\ pid # Null /\ f.beginRegion.set
        /\ OwnExpansion(pid, f.beginRegion, f.beginOffset).ok
        /\ cache.items = OwnExpansion(pid, f.beginRegion, f.beginOffset).items

C13_OwnExpansion ==
    Returned =>
        /\ \A i \in Entries({"backref"}) :
             log[i].ok =>
                 /\ log[i].beginRegion.set
                 /\ OwnExpansion(log[i].pid, log[i].beginRegion, log[i].beginOffset).ok
                 /\ log[i].items
                      = OwnExpansion(log[i].pid, log[i].beginRegion,
                                     log[i].beginOffset).items
        /\ \A i \in Entries({"applied"}) :
             (log[i].why = "BEGIN" /\ i < Len(log) /\ log[i + 1].k = "backref") =>
                 log[i + 1].fi = log[i].depth /\ ~log[i + 1].cached
        /\ \A j \in 1..Len(r.stack) :
             /\ CachedOwn(r.stack[j], r.stack[j].endRegex, states[r.stack[j].s].endPattern)
             /\ CachedOwn(r.stack[j], r.stack[j].whileRegex,
                          states[r.stack[j].s].whilePattern)

C13_Witness ==
    /\ Returned
    /\ \E i, j \in Entries({"backref"}) :
         /\ i < j /\ log[i].fi = log[j].fi /\ log[i].ok /\ log[j].ok
         /\ log[i].items # log[j].items /\ ~log[j].cached
         /\ \E m \in Entries({"popped"}) : i < m /\ m < j /\ log[m].after = log[i].fi
    /\ \E j \in 2..Len(r.stack) : r.stack[j].endRegex.set

(* ---- C14 ---- *)

AllDigits(name) == name # <<>> /\ \A i \in 1..Len(name) : name[i] \in 48..57

RECURSIVE Decimal(_)
Decimal(name) ==
    IF name = <<>> THEN 0
    ELSE 10 * Decimal(SubSeq(name, 1, Len(name) - 1)) + (name[Len(name)] - 48)

RECURSIVE Stripped(_)
Stripped(name) ==
    IF name # <<>> /\ Head(name) = 48 THEN Stripped(Tail(name)) ELSE name

(* the decimal value of name is at least n (n below 10^9) *)
ValueAtLeast(name, n) ==
    Len(Stripped(name)) > 9 \/ Decimal(Stripped(name)) >= n

SetterReturned == ret \in {"scope", "state"}

(* C14: setCaptureScope and setCaptureState called with a name of digits   *)
(* whose decimal value is at least the pattern's number of capture slots   *)
(* leave the pattern as it was, also when the value does not fit 32 bits   *)
C14_OutOfRangeIgnored ==
    (SetterReturned /\ AllDigits(log[1]) /\ ValueAtLeast(log[1], prev.captures))
        => patterns.p = prev

(* the same for the values that fit an unsigned 32-bit integer: this part  *)
(* of the statement holds                                                  *)
C14_InRange32 ==
    (SetterReturned /\ AllDigits(log[1]) /\ ValueAtLeast(log[1], prev.captures)
        /\ (Len(Stripped(log[1])) <= 9 \/ log[1] \in
               {<<50, 49, 52, 55, 52, 56, 51, 54, 52, 55>>,
                <<50, 49, 52, 55, 52, 56, 51, 54, 52, 56>>,
                <<52, 50, 57, 52, 57, 54, 55, 50, 57, 53>>}))
        => patterns.p = prev

(* ---- C15 ---- *)

(* the entries of the evaluations of the dispatch loop's body in which     *)
(* both searches were made                                                 *)
Iterations ==
    Entries({"rule", "end"}) \cup {i \in Entries({"halt"}) : log[i].why = "nomatch"}

BothMatch(i) == log[i].res >= 0 /\ log[i].endres >= 0

(* the rule match logged at i was applied and the frame was not popped *)
RuleTaken(i) ==
    /\ log[i].k = "rule"
    /\ log[Outcome(i)].k \in {"applied", "halt"}
    /\ log[Outcome(i)].after >= log[i].depth

(* the end match logged at i was applied: the two ranges of the frame,     *)
(* the pop, and the next search from the end of the end match              *)
EndTaken(i) ==
    /\ log[i].k = "end"
    /\ log[Outcome(i)].k = "popped"
    /\ log[Outcome(i)].after = log[i].depth - 1
    /\ log[Outcome(i) - 2] =
         [k |-> "range", name |-> patterns[log[i].p].innerScope, seq |-> log[i].innerSeq,
          begin |-> log[i].innerBegin, end |-> log[i].from]
    /\ log[Outcome(i) - 1] =
         [k |-> "range", name |-> patterns[log[i].p].outerScope, seq |-> log[i].outerSeq,
          begin |-> log[i].outerBegin, end |-> log[i].to]
    /\ log[Following(Outcome(i))].k # "open"
    /\ log[Following(Outcome(i))].why \in {"MATCH", "BEGIN", "end", "nomatch"}
    /\ log[Following(Outcome(i))].offset = log[i].to

LoopLeft(i) == log[i].k = "halt" /\ log[Following(i)].k = "open"

(* C15: in an evaluation of the dispatch loop's body, a rule match that    *)
(* starts strictly before the end match is applied and the frame stays; an *)
(* end match that starts strictly before the rule match is applied, with   *)
(* the frame's inner and outer ranges, the pop and the cursor at the end   *)
(* of the end match; with neither match the loop is left.                  *)
C15_Dispatch ==
    Returned =>
        \A i \in Iterations :
            /\ (BothMatch(i) /\ log[i].matchpos < log[i].endpos) => RuleTaken(i)
            /\ (BothMatch(i) /\ log[i].endpos < log[i].matchpos) => EndTaken(i)
            /\ (log[i].res < 0 /\ log[i].endres < 0) => LoopLeft(i)

(* C15, with the end match applied when the frame is above the base of the *)
(* invocation, and the loop left with the stack as it is when it is not    *)
C15_DispatchAboveBase ==
    Returned =>
        \A i \in Iterations :
            /\ (BothMatch(i) /\ log[i].matchpos < log[i].endpos) => RuleTaken(i)
            /\ (BothMatch(i) /\ log[i].endpos < log[i].matchpos) =>
                 IF log[i].depth > log[i].base THEN EndTaken(i)
                 ELSE /\ log[i].k = "end"
                      /\ log[Outcome(i)].k = "halt"
                      /\ log[Outcome(i)].why = "underflow"
                      /\ LoopLeft(Outcome(i))
                      /\ log[Following(Outcome(i))].depth = log[i].depth
            /\ (log[i].res < 0 /\ log[i].endres < 0) => LoopLeft(i)

C15_Witness ==
    /\ Returned
    /\ \E i \in Iterations :
         BothMatch(i) /\ log[i].matchpos < log[i].endpos /\ RuleTaken(i)
    /\ \E i \in Iterations :
         /\ BothMatch(i) /\ log[i].endpos < log[i].matchpos
         /\ log[i].depth > log[i].base /\ EndTaken(i)
    /\ \E i \in Iterations : log[i].res < 0 /\ log[i].endres < 0 /\ LoopLeft(i)

(* ---- C16 ---- *)

(* C16: a frame with a while pattern is kept for a new line only if the    *)
(* while pattern matches starting at the offset the search is made from;   *)
(* a match that starts later in the line does not keep the frame.          *)
C16_WhileAnchored ==
    Returned =>
        \A i \in Entries({"while"}) : log[i].ok => log[i].pos = log[i].offset

(* ---- C17 ---- *)

Backreferencing(pid) == pid # Null /\ patterns[pid].backreferencingPattern

(* C17: a frame pushed by a BEGIN rule has a copy of the begin match's     *)
(* region exactly when the end pattern or the while pattern of its state   *)
(* is backreferencing, and a backreferencing while pattern is expanded     *)
(* with the begin captures of its frame at hand.                           *)
C17_RegionKept ==
    Returned =>
        /\ \A j \in 2..Len(r.stack) :
             r.stack[j].beginRegion.set <=>
                 (Backreferencing(states[r.stack[j].s].endPattern)
                  \/ Backreferencing(states[r.stack[j].s].whilePattern))
        /\ \A i \in Entries({"backref"}) :
             log[i].which = "whileRegex" => (log[i].cached \/ log[i].beginRegion.set)

(* the part of C17 that holds: the copy is there exactly when the end      *)
(* pattern is backreferencing                                              *)
C17_RegionKeptForEnd ==
    Returned =>
        \A j \in 2..Len(r.stack) :
            r.stack[j].beginRegion.set <=>
                Backreferencing(states[r.stack[j].s].endPattern)

(* ---- C18 ---- *)

(* the bottom frame: a state of the grammar and no pattern *)
BottomFrame(f) == f.s \in DOMAIN states /\ f.p = Null

(* the depth and the bottom frame at the points of a call the trace tells  *)
(* of: the start of every dispatch loop, every sub-render, push and pop    *)
DuringCall ==
    /\ \A i \in Entries({"dispatch"}) :
         /\ log[i].depth \in 1..StackSize
         /\ log[i].frames[1].s = prev.stack[1].s
         /\ log[i].frames[1].p = Null
    /\ \A i \in Entries({"sub", "subdone"}) :
         /\ Len(log[i].stack) \in 1..StackSize
         /\ log[i].stack[1] = prev.stack[1]
    /\ \A i \in Entries({"applied", "popped"}) : log[i].after \in 1..StackSize

C18_Depth ==
    /\ Len(r.stack) \in 1..StackSize
    /\ BottomFrame(r.stack[1])
    /\ Returned => DuringCall

C18_Step == r'.stack[1] = r.stack[1]

(* C18: the stack always holds between 1 and 256 frames, and its bottom    *)
(* frame is the one createRenderer made, with the start state and no       *)
(* pattern: no call of renderNextLine pops or changes it.                  *)
C18_BottomFrameStays == [](C18_Depth) /\ [][C18_Step]_vars

(* a line that met an overflow and left the stack full, in a run in which  *)
(* the bottom frame is still the one the renderer was created with         *)
C18_Witness ==
    /\ Returned
    /\ Len(r.stack) = StackSize
    /\ Overflows # {}
    /\ BottomFrame(r.stack[1])

(* ---- C19 ---- *)

(* a comes before b in the order the events of a line are to be in *)
Precedes(a, b) ==
    \/ a.offset < b.offset
    \/ /\ a.offset = b.offset
       /\ \/ a.ty = "END" /\ b.ty = "BEGIN"
          \/ /\ a.ty = "BEGIN" /\ b.ty = "BEGIN"
             /\ \/ a.startOffset < b.startOffset
                \/ a.startOffset = b.startOffset /\ a.endOffset > b.endOffset
                \/ /\ a.startOffset = b.startOffset /\ a.endOffset = b.endOffset
                   /\ a.seq < b.seq
          \/ /\ a.ty = "END" /\ b.ty = "END"
             /\ \/ a.startOffset > b.startOffset
                \/ a.startOffset = b.startOffset /\ a.endOffset < b.endOffset
                \/ /\ a.startOffset = b.startOffset /\ a.endOffset = b.endOffset
                   /\ a.seq > b.seq

SameKey(a, b) ==
    /\ a.offset = b.offset /\ a.ty = b.ty /\ a.startOffset = b.startOffset
    /\ a.endOffset = b.endOffset /\ a.seq = b.seq

Compared == ret = "compared"

(* C19: compareScopes is negative exactly when its first event precedes    *)
(* its second in the order above and positive exactly when the second      *)
(* precedes the first; it is 0 only for events with the same offset, type, *)
(* start, end and seq; it is antisymmetric and transitive.                 *)
C19_TotalOrder ==
    Compared =>
        /\ log.ab < 0 <=> Precedes(line.scopes[1], line.scopes[2])
        /\ log.ab > 0 <=> Precedes(line.scopes[2], line.scopes[1])
        /\ log.ab = 0 => SameKey(line.scopes[1], line.scopes[2])
        /\ log.ab < 0 <=> log.ba > 0
        /\ log.ab = 0 <=> log.ba = 0
        /\ \A c \in ScopeEvents :
             /\ (log.ab < 0 /\ log.bc[c] < 0) => log.ac[c] < 0
             /\ (log.ab <= 0 /\ log.bc[c] <= 0) => log.ac[c] <= 0

(* two END events at one offset with the same start and end, the one of    *)
(* the larger seq first                                                    *)
C19_Witness ==
    /\ Compared
    /\ line.scopes[1].ty = "END" /\ line.scopes[2].ty = "END"
    /\ line.scopes[1].offset = line.scopes[2].offset
    /\ line.scopes[1].startOffset = line.scopes[2].startOffset
    /\ line.scopes[1].endOffset = line.scopes[2].endOffset
    /\ line.scopes[1].seq > line.scopes[2].seq
    /\ log.ab < 0
    /\ \E c \in ScopeEvents : log.bc[c] < 0 /\ log.ac[c] < 0

(* ---- C20 ---- *)

(* the entries of the recursive renders of captures *)
SubRenders == {i \in Entries({"enter"}) : log[i].base > 1}

(* the entry that ends the invocation of renderLine entered at i *)
ExitOf(i) ==
    LET S == {j \in Entries({"exit"}) : j > i /\ log[j].base = log[i].base}
    IN CHOOSE j \in S : \A m \in S : j <= m

(* the ranges added during the sub-render entered at i lie within the      *)
(* capture                                                                 *)
RangesWithin(i) ==
    \A m \in i..ExitOf(i) :
        (log[m].k = "range" /\ Emits(m)) =>
            log[i].begin <= log[m].begin /\ log[m].end <= log[i].end

(* the cursor of the sub-render entered at i stays within the capture *)
CursorWithin(i) ==
    \A m \in i..ExitOf(i) :
        (log[m].k \in {"applied", "popped"} /\ log[m].base = log[i].base) =>
            log[m].to <= log[i].end

(* C20: during the recursive render of a capture every scope range added   *)
(* starts and ends within the capture, and the cursor never moves past the *)
(* capture's end.                                                          *)
C20_WithinCapture ==
    Returned => \A i \in SubRenders : RangesWithin(i) /\ CursorWithin(i)

(* ---- C21 ---- *)

Freed == ret = "freed"

(* the ids the frames of a stack point to *)
Owned(stack) == {q[3] : q \in pointers(stack, 1, Len(stack))} \ {0}

(* no two pointers of the stack are to the same object *)
Unshared(stack) ==
    \A q \in pointers(stack, 1, Len(stack)) :
        \A x \in pointers(stack, 1, Len(stack)) : (q[3] # 0 /\ q[3] = x[3]) => q = x

(* C21: no object of a frame is freed twice; the objects held are those    *)
(* the frames on the stack point to, each by one pointer, so that an       *)
(* object is freed when its frame is popped and not before, and none is    *)
(* lost to a later push; every object is held or was freed once; and       *)
(* after freeRenderer none is held.                                        *)
C21_ReleasedOnce ==
    /\ heap.twice = {}
    /\ heap.held = Owned(r.stack)
    /\ Unshared(r.stack)
    /\ heap.held \cap heap.released = {}
    /\ heap.held \cup heap.released = 1..(heap.next - 1)
    /\ Freed => heap.held = {} /\ r.stack = <<>>

(* a renderer freed after an end regex, a while regex and a begin region   *)
(* were made, with one of them freed by a pop before freeRenderer and one  *)
(* by freeRenderer                                                         *)
C21_Witness ==
    /\ Freed
    /\ {"endRegex", "whileRegex", "beginRegion"} \subseteq
           {heap.kinds[i] : i \in DOMAIN heap.kinds}
    /\ heap.released = 1..(heap.next - 1)
    /\ Owned(prev.stack) # {}
    /\ heap.released \ Owned(prev.stack) # {}

(* ---- C22 ---- *)

(* the entry of the next evaluation of the loop's body after entry j, if   *)
(* the loop goes on to search                                              *)
Searches(f) == log[f].k \in {"rule", "end"} \/ (log[f].k = "halt" /\ log[f].why = "nomatch")

(* the rule match logged at i, whose region was [from, to] when it won,    *)
(* was applied with that region                                            *)
AppliedOwn(i) ==
    log[Outcome(i)].k = "applied" =>
        /\ log[Outcome(i)].from = log[i].from
        /\ log[Outcome(i)].to = log[i].to
        /\ Searches(Following(Outcome(i))) =>
             /\ log[Following(Outcome(i))].offset = log[i].to
             /\ log[i].why = "BEGIN" =>
                  /\ log[Following(Outcome(i))].outerBegin = log[i].from
                  /\ log[Following(Outcome(i))].innerBegin = log[i].to

(* a sub-render was made for a capture of the rule match logged at i *)
Recursed(i) ==
    \E m \in i..Outcome(i) : log[m].k = "sub" /\ log[m].base = log[i].base + 1

(* C22: after a rule wins, the cursor is the end of the rule's own whole   *)
(* match and the frame a BEGIN rule pushes has that match's start and end  *)
(* as outerBegin and innerBegin, whatever the rendering of the rule's      *)
(* captures searched.                                                      *)
C22_OwnMatch == Returned => \A i \in Entries({"rule"}) : AppliedOwn(i)

(* the same for the rules whose captures started no sub-render: this part  *)
(* holds                                                                   *)
C22_OwnMatchFlat ==
    Returned => \A i \in Entries({"rule"}) : ~Recursed(i) => AppliedOwn(i)

====
